---- MODULE Spec2Model ----
(***************************************************************************)
(* Model of unzip_cx/cli.py: archive discovery, the destination resolver   *)
(* (ensure_destination / handle_existing_dest), the batch runner           *)
(* (extract_archives) and main's exit status.                              *)
(*                                                                         *)
(* A file or folder name is a sequence of one-character strings, a path is *)
(* a sequence of names (its parts below the directory it is relative to).  *)
(* The output directory is a map from the names of its entries to what     *)
(* they hold.                                                              *)
(***************************************************************************)
EXTENDS Integers, Sequences, FiniteSets, TLC

VARIABLES
    pc,             \* "main", "loop" (line 189), "resolved" (line 193), or an end:
                    \* "returned", "cancelled" (sys.exit), "crashed" (uncaught exception)
    env,            \* what is on disk and on the command line when main starts
    plan,           \* ExtractionPlan (recursive, on_existing, dry_run, pattern)
    archives,       \* the list collect_archives returned
    idx,            \* enumerate(archives, start=1): the archive being handled
    on_existing,    \* extract_archives' local: the current collision policy
    resolved_dest,  \* extract_archives' local: what handle_existing_dest returned
    extracted, skipped, failed,   \* extract_archives' counters
    fs,             \* the entries of plan.output_dir
    made_output,    \* plan.output_dir.mkdir has run
    status,         \* main's return value: <<>> until it returns, then <<code>>
    log             \* history: one record per archive handled so far

vars == <<pc, env, plan, archives, idx, on_existing, resolved_dest,
          extracted, skipped, failed, fs, made_output, status, log>>

----------------------------------------------------------------------------
(* Bounds of the model *)

\* at most this many entries in the input directory tree
MaxFiles == 3

\* None (Python) for a destination
NONE == <<"None">>

----------------------------------------------------------------------------
(* Characters and strings *)

\* the characters of the model's names in ASCII order
Alphabet == <<".", "0", "1", "2", "3", "4", "5", "6", "7", "8", "9",
              "I", "P", "Z", "_",
              "a", "b", "e", "g", "i", "n", "o", "p", "r", "s", "t", "u", "x", "z">>

Code(c) == CHOOSE i \in 1..Len(Alphabet) : Alphabet[i] = c

\* str.lower, one character
LowerChar(c) ==
    CASE c = "I" -> "i"
      [] c = "P" -> "p"
      [] c = "Z" -> "z"
      [] OTHER -> c

\* str.lower
Lower(s) == [i \in 1..Len(s) |-> LowerChar(s[i])]

\* str.endswith
EndsWith(s, suffix) ==
    /\ Len(suffix) <= Len(s)
    /\ SubSeq(s, Len(s) - Len(suffix) + 1, Len(s)) = suffix

\* s < t for two strings (character by character, then by length)
RECURSIVE StrLess(_, _)
StrLess(s, t) ==
    IF t = <<>> THEN FALSE
    ELSE IF s = <<>> THEN TRUE
    ELSE IF s[1] # t[1] THEN Code(s[1]) < Code(t[1])
    ELSE StrLess(Tail(s), Tail(t))

\* p < q for two paths: part by part
RECURSIVE PathLess(_, _)
PathLess(p, q) ==
    IF q = <<>> THEN FALSE
    ELSE IF p = <<>> THEN TRUE
    ELSE IF p[1] # q[1] THEN StrLess(p[1], q[1])
    ELSE PathLess(Tail(p), Tail(q))

\* sorted(S) for a set of paths
RECURSIVE sorted(_)
sorted(S) ==
    IF S = {} THEN <<>>
    ELSE LET m == CHOOSE p \in S : \A q \in S \ {p} : PathLess(p, q)
         IN <<m>> \o sorted(S \ {m})

\* str(n) for n >= 0
RECURSIVE Decimal(_)
Decimal(n) ==
    IF n < 10 THEN <<Alphabet[n + 2]>>
    ELSE Decimal(n \div 10) \o <<Alphabet[(n % 10) + 2]>>

----------------------------------------------------------------------------
(* SUPPORTED_EXTENSIONS and archive_stem *)

\* the extensions shutil.get_unpack_formats() advertises (those the model's
\* file names can end with)
UnpackExtensions ==
    { <<".", "t", "a", "r", ".", "g", "z">>,
      <<".", "t", "g", "z">>,
      <<".", "t", "a", "r">>,
      <<".", "z", "i", "p">> }

\* sorted(S, key=len, reverse=True)
RECURSIVE SortedByLenDesc(_)
SortedByLenDesc(S) ==
    IF S = {} THEN <<>>
    ELSE LET m == CHOOSE e \in S : \A f \in S : Len(f) <= Len(e)
         IN <<m>> \o SortedByLenDesc(S \ {m})

SUPPORTED_EXTENSIONS == SortedByLenDesc({Lower(e) : e \in UnpackExtensions})

\* PurePath.stem: the name without its last suffix
PathStem(name) ==
    LET dots == {i \in 2..Len(name) : name[i] = "."}
    IN IF dots = {} \/ name[Len(name)] = "." THEN name
       ELSE LET last == CHOOSE i \in dots : \A j \in dots : j <= i
            IN SubSeq(name, 1, last - 1)

\* archive_stem(path), given path.name
archive_stem(name) ==
    LET lower_name == Lower(name)
        hits == {i \in 1..Len(SUPPORTED_EXTENSIONS) :
                    EndsWith(lower_name, SUPPORTED_EXTENSIONS[i])}
    IN IF hits # {}
       THEN LET first == CHOOSE i \in hits : \A j \in hits : i <= j
            IN SubSeq(name, 1, Len(name) - Len(SUPPORTED_EXTENSIONS[first]))
       ELSE PathStem(name)

\* path.name
PathName(path) == path[Len(path)]

----------------------------------------------------------------------------
(* collect_archives *)

\* fnmatch of a name against a pattern "*<literal>" (the patterns of the model)
Matches(name, pattern) == EndsWith(name, Tail(pattern))

\* input_dir.rglob(pattern) if recursive else input_dir.glob(pattern)
Glob(files, pattern, recursive) ==
    {f \in files : /\ Matches(PathName(f.path), pattern)
                   /\ (recursive \/ Len(f.path) = 1)}

collect_archives(files, p) ==
    LET candidates == {f \in Glob(files, p.pattern, p.recursive) : f.is_file}
        found == {f.path : f \in
                    {c \in candidates :
                        \E i \in 1..Len(SUPPORTED_EXTENSIONS) :
                            EndsWith(Lower(PathName(c.path)), SUPPORTED_EXTENSIONS[i])}}
    IN sorted(found)

----------------------------------------------------------------------------
(* The output directory *)

Exists(tree, dest) == dest \in DOMAIN tree

EmptyDir == [kind |-> "dir", contents |-> {}]

\* dest.mkdir(parents=True, exist_ok=True) on a name that does not exist
Mkdir(tree, dest) == (dest :> EmptyDir) @@ tree

SetContents(tree, dest, c) == [tree EXCEPT ![dest].contents = c]

\* what ensure_destination hands back: the value returned (NONE for None), the
\* tree it leaves, and whether an OSError left it instead of a return
Returned(value, tree) == [ret |-> value, fs |-> tree, raised |-> FALSE]
Raised(tree) == [ret |-> NONE, fs |-> tree, raised |-> TRUE]

\* dest.parent / f"{dest.name}_{counter}"
RenameCandidate(dest, counter) == dest \o <<"_">> \o Decimal(counter)

\* FirstFreeCandidate without its search: the candidate of the first counter
\* is taken whether or not it exists
FirstFreeCandidate_NoSearch(tree, dest, counter) == RenameCandidate(dest, counter)

\* the loop of lines 157-162: the first candidate that does not exist
RECURSIVE FirstFreeCandidate(_, _, _)
FirstFreeCandidate(tree, dest, counter) ==
    IF ~Exists(tree, RenameCandidate(dest, counter))
    THEN RenameCandidate(dest, counter)
    ELSE FirstFreeCandidate(tree, dest, counter + 1)

\* the counter the search starts from
RenameStart == 1

\* ClearContents that unlinks the files and leaves the subfolders
ClearContents_FilesOnly(tree, dest) ==
    IF tree[dest].kind # "dir"
    THEN {Raised(tree)}
    ELSE {Returned(dest, SetContents(tree, dest,
                            {c \in tree[dest].contents : c.kind # "file"}))}

\* lines 148-153: every child removed; or an OSError from iterdir, rmtree or
\* unlink, which leaves the children not yet removed (the failing one included)
ClearContents(tree, dest) ==
    IF tree[dest].kind # "dir"
    THEN {Raised(tree)}
    ELSE {Returned(dest, SetContents(tree, dest, {}))}
         \cup {Raised(SetContents(tree, dest, left)) :
                  left \in (SUBSET tree[dest].contents \ {{}}) \cup {tree[dest].contents}}

\* a mkdir either makes the folder or raises OSError (permission denied, ...)
MkdirOutcomes(tree, dest) == {Returned(dest, Mkdir(tree, dest)), Raised(tree)}

ensure_destination(tree, dest, policy) ==
    IF ~Exists(tree, dest) THEN MkdirOutcomes(tree, dest)
    ELSE IF policy = "skip" THEN {Returned(NONE, tree)}
    ELSE IF policy = "overwrite" THEN ClearContents(tree, dest)
    ELSE IF policy = "rename"
         THEN MkdirOutcomes(tree, FirstFreeCandidate(tree, dest, RenameStart))
    ELSE {Returned(NONE, tree)}

----------------------------------------------------------------------------
(* handle_existing_dest *)

Policies == {"ask", "skip", "overwrite", "rename"}
BaseChoices == {"skip", "overwrite", "rename"}
AllChoices == {"skip-all", "overwrite-all", "rename-all"}
Choices == BaseChoices \cup AllChoices

\* choice.endswith("-all")
EndsWithAll(choice) == choice \in AllChoices

\* choice.replace("-all", "")
StripAll(choice) ==
    CASE choice = "skip-all" -> "skip"
      [] choice = "overwrite-all" -> "overwrite"
      [] choice = "rename-all" -> "rename"
      [] OTHER -> choice

\* Prompts without the existence test
Prompts_EvenIfAbsent(tree, dest, policy) == policy = "ask"

\* whether handle_existing_dest prompts (line 170)
Prompts(tree, dest, policy) == Exists(tree, dest) /\ policy = "ask"

\* PolicyAfterChoice that drops an "-all" answer
PolicyAfterChoice_Forgets(choice, policy) == policy

\* the policy handle_existing_dest returns after the operator's answer
PolicyAfterChoice(choice, policy) ==
    IF EndsWithAll(choice) THEN StripAll(choice) ELSE policy

\* handle_existing_dest with the operator's answer (read only when it prompts):
\* each outcome of ensure_destination paired with the policy returned
handle_existing_dest(tree, dest, policy, choice) ==
    IF ~Prompts(tree, dest, policy)
    THEN {[out |-> o, policy |-> policy, prompted |-> FALSE]
             : o \in ensure_destination(tree, dest, policy)}
    ELSE {[out |-> o, policy |-> PolicyAfterChoice(choice, policy), prompted |-> TRUE]
             : o \in ensure_destination(tree, dest, StripAll(choice))}

----------------------------------------------------------------------------
(* What main starts from *)

File(path) == [path |-> path, is_file |-> TRUE]
Folder(path) == [path |-> path, is_file |-> FALSE]

N_a == <<"a">>
N_a_1 == <<"a", "_", "1">>

\* the entries the input directory tree may hold: two archives with the stem
\* "a", one whose stem is the first rename sibling of "a" (upper-case
\* extension), one in a subfolder, a file that is no archive, and a folder
\* named like an archive
InputEntries ==
    { File(<< <<"a", ".", "t", "a", "r", ".", "g", "z">> >>),
      File(<< <<"a", ".", "z", "i", "p">> >>),
      File(<< <<"a", "_", "1", ".", "Z", "I", "P">> >>),
      File(<< <<"s", "u", "b">>, <<"a", ".", "z", "i", "p">> >>),
      File(<< <<"n", "o", "t", "e", "s", ".", "t", "x", "t">> >>),
      Folder(<< <<"b", ".", "z", "i", "p">> >>) }

Patterns == { <<"*">>, <<"*", ".", "z", "i", "p">> }

\* what a folder of the output directory holds: src is the archive of this run
\* that wrote it (0: it was there before the run)
Stale(kind) == [src |-> 0, kind |-> kind]
Output(i) == [src |-> i, kind |-> "out"]
Partial(i) == [src |-> i, kind |-> "part"]

StaleDir == [kind |-> "dir", contents |-> {Stale("file"), Stale("tree")}]
StaleFile == [kind |-> "file", contents |-> {}]

\* the output directory before the run: empty; "a" there (a folder with a
\* file and a subtree, or a plain file); "a" and "a_1" there
InitialTrees ==
    { <<>>,
      (N_a :> StaleDir),
      (N_a :> StaleFile),
      (N_a :> StaleDir) @@ (N_a_1 :> StaleDir) }

\* env.tree is the output directory as main finds it
Envs ==
    {[input_exists |-> TRUE, files |-> F, tree |-> t] :
        F \in {G \in SUBSET InputEntries : Cardinality(G) <= MaxFiles},
        t \in InitialTrees}
    \cup {[input_exists |-> FALSE, files |-> {}, tree |-> t] : t \in InitialTrees}

Plans == [recursive : BOOLEAN, on_existing : Policies, dry_run : BOOLEAN,
          pattern : Patterns]

Init ==
    /\ pc = "main"
    /\ env \in Envs
    /\ plan \in Plans
    /\ fs = env.tree
    /\ archives = <<>>
    /\ idx = 0
    /\ on_existing = plan.on_existing
    /\ resolved_dest = NONE
    /\ extracted = 0 /\ skipped = 0 /\ failed = 0
    /\ made_output = FALSE
    /\ status = <<>>
    /\ log = <<>>

----------------------------------------------------------------------------
(* main *)

\* ExitStatus that tolerates one failure
ExitStatus_OneAllowed(nfailed) == IF nfailed <= 1 THEN 0 ELSE 1

\* line 287
ExitStatus(nfailed) == IF nfailed = 0 THEN 0 ELSE 1

\* interactive_plan, line 236-238: the operator declines "Proceed"; sys.exit(0)
MainCancelled ==
    /\ pc = "main"
    /\ pc' = "cancelled"
    /\ UNCHANGED <<env, plan, archives, idx, on_existing, resolved_dest,
                   extracted, skipped, failed, fs, made_output, status, log>>

\* lines 270-272
MainInputMissing ==
    /\ pc = "main"
    /\ ~env.input_exists
    /\ status' = <<2>>
    /\ pc' = "returned"
    /\ UNCHANGED <<env, plan, archives, idx, on_existing, resolved_dest,
                   extracted, skipped, failed, fs, made_output, log>>

\* lines 274-277
MainNoArchives ==
    /\ pc = "main"
    /\ env.input_exists
    /\ collect_archives(env.files, plan) = <<>>
    /\ status' = <<0>>
    /\ pc' = "returned"
    /\ UNCHANGED <<env, plan, archives, idx, on_existing, resolved_dest,
                   extracted, skipped, failed, fs, made_output, log>>

\* lines 274-281 and 186-187: the archives are collected, the output directory
\* is made and extract_archives starts
MainStart ==
    /\ pc = "main"
    /\ env.input_exists
    /\ collect_archives(env.files, plan) # <<>>
    /\ archives' = collect_archives(env.files, plan)
    /\ made_output' = TRUE
    /\ idx' = 1
    /\ on_existing' = plan.on_existing
    /\ pc' = "loop"
    /\ UNCHANGED <<env, plan, resolved_dest, extracted, skipped, failed, fs,
                   status, log>>

\* line 279: plan.output_dir.mkdir raises OSError, which nothing catches
MainMkdirRaises ==
    /\ pc = "main"
    /\ env.input_exists
    /\ collect_archives(env.files, plan) # <<>>
    /\ pc' = "crashed"
    /\ UNCHANGED <<env, plan, archives, idx, on_existing, resolved_dest,
                   extracted, skipped, failed, fs, made_output, status, log>>

----------------------------------------------------------------------------
(* extract_archives *)

\* line 190-191: dest = plan.output_dir / archive_stem(archive)
Dest(archive) == archive_stem(PathName(archive))

\* the history record of one archive: what handle_existing_dest was given
\* (dest, whether it existed, the policy before), what it did (prompted, the
\* answer, the policy after, the folder returned) and how the archive ended
\* (outcome: "pending", "raised" for an OSError of the resolver, "skipped",
\* "dry-run", "extracted", or the exception unpack_archive raised)
Entry(i, dest, existed, r, choice, before) ==
    [archive |-> i, dest |-> dest, existed |-> existed, prompted |-> r.prompted,
     choice |-> IF r.prompted THEN choice ELSE "none",
     before |-> before, after |-> r.policy,
     resolved |-> r.out.ret,
     outcome |-> IF r.out.raised THEN "raised" ELSE "pending"]

SetOutcome(l, o) == [l EXCEPT ![Len(l)].outcome = o]

\* lines 189-192: handle_existing_dest for the archive at idx; an OSError it
\* raises is caught nowhere and ends extract_archives and main
Resolve ==
    /\ pc = "loop"
    /\ idx <= Len(archives)
    /\ \E choice \in Choices :
         \E r \in handle_existing_dest(fs, Dest(archives[idx]), on_existing, choice) :
            /\ fs' = r.out.fs
            /\ log' = Append(log, Entry(idx, Dest(archives[idx]),
                                         Exists(fs, Dest(archives[idx])),
                                         r, choice, on_existing))
            /\ IF r.out.raised
               THEN /\ pc' = "crashed"
                    /\ UNCHANGED <<resolved_dest, on_existing>>
               ELSE /\ pc' = "resolved"
                    /\ resolved_dest' = r.out.ret
                    /\ on_existing' = r.policy
    /\ UNCHANGED <<env, plan, archives, idx, extracted, skipped, failed,
                   made_output, status>>

\* Skip without its count
Skip_Uncounted ==
    /\ pc = "resolved"
    /\ resolved_dest = NONE
    /\ log' = SetOutcome(log, "skipped")
    /\ idx' = idx + 1
    /\ pc' = "loop"
    /\ UNCHANGED <<env, plan, archives, on_existing, resolved_dest, extracted,
                   skipped, failed, fs, made_output, status>>

\* lines 193-196
Skip ==
    /\ pc = "resolved"
    /\ resolved_dest = NONE
    /\ skipped' = skipped + 1
    /\ log' = SetOutcome(log, "skipped")
    /\ idx' = idx + 1
    /\ pc' = "loop"
    /\ UNCHANGED <<env, plan, archives, on_existing, resolved_dest, extracted,
                   failed, fs, made_output, status>>

\* lines 198-201
DryRun ==
    /\ pc = "resolved"
    /\ resolved_dest # NONE
    /\ plan.dry_run
    /\ extracted' = extracted + 1
    /\ log' = SetOutcome(log, "dry-run")
    /\ idx' = idx + 1
    /\ pc' = "loop"
    /\ UNCHANGED <<env, plan, archives, on_existing, resolved_dest, skipped,
                   failed, fs, made_output, status>>

\* an except clause that names ReadError alone
Caught_ReadErrorOnly == {"ReadError"}

\* the exceptions line 207 catches
Caught == {"ReadError", "ValueError", "OSError"}

\* what shutil.unpack_archive can raise: the three above, and others (zipfile
\* raises RuntimeError on an encrypted member)
Raisable == {"ReadError", "ValueError", "OSError", "RuntimeError"}

AddContents(tree, dest, e) == SetContents(tree, dest, tree[dest].contents \cup {e})

\* ExtractOk reached in a dry run too (line 201's continue missing)
ExtractOk_InDryRun ==
    /\ pc = "resolved"
    /\ resolved_dest # NONE
    /\ fs' = AddContents(fs, resolved_dest, Output(idx))
    /\ extracted' = extracted + 1
    /\ log' = SetOutcome(log, "extracted")
    /\ idx' = idx + 1
    /\ pc' = "loop"
    /\ UNCHANGED <<env, plan, archives, on_existing, resolved_dest, skipped,
                   failed, made_output, status>>

\* lines 203-206: unpack_archive returns
ExtractOk ==
    /\ pc = "resolved"
    /\ resolved_dest # NONE
    /\ ~plan.dry_run
    /\ fs' = AddContents(fs, resolved_dest, Output(idx))
    /\ extracted' = extracted + 1
    /\ log' = SetOutcome(log, "extracted")
    /\ idx' = idx + 1
    /\ pc' = "loop"
    /\ UNCHANGED <<env, plan, archives, on_existing, resolved_dest, skipped,
                   failed, made_output, status>>

\* lines 203-209: unpack_archive raises, having written nothing or a part of
\* the archive; line 207 catches the exception or it ends extract_archives
ExtractRaises ==
    /\ pc = "resolved"
    /\ resolved_dest # NONE
    /\ ~plan.dry_run
    /\ \E exc \in Raisable, wrote \in BOOLEAN :
         /\ fs' = IF wrote THEN AddContents(fs, resolved_dest, Partial(idx)) ELSE fs
         /\ log' = SetOutcome(log, exc)
         /\ IF exc \in Caught
            THEN /\ failed' = failed + 1
                 /\ idx' = idx + 1
                 /\ pc' = "loop"
            ELSE /\ pc' = "crashed"
                 /\ UNCHANGED <<failed, idx>>
    /\ UNCHANGED <<env, plan, archives, on_existing, resolved_dest, extracted,
                   skipped, made_output, status>>

\* line 211 and lines 283-287: the RunResult is returned and main returns
Return ==
    /\ pc = "loop"
    /\ idx > Len(archives)
    /\ status' = <<ExitStatus(failed)>>
    /\ pc' = "returned"
    /\ UNCHANGED <<env, plan, archives, idx, on_existing, resolved_dest,
                   extracted, skipped, failed, fs, made_output, log>>

Next ==
    \/ MainCancelled
    \/ MainInputMissing
    \/ MainNoArchives
    \/ MainStart
    \/ MainMkdirRaises
    \/ Resolve
    \/ Skip
    \/ DryRun
    \/ ExtractOk
    \/ ExtractRaises
    \/ Return

Spec == Init /\ [][Next]_vars

----------------------------------------------------------------------------
(* Vocabulary of the properties *)

Last(l) == l[Len(l)]

\* the base policy of an answer to the prompt
Base(choice) ==
    CASE choice \in {"skip", "skip-all"} -> "skip"
      [] choice \in {"overwrite", "overwrite-all"} -> "overwrite"
      [] choice \in {"rename", "rename-all"} -> "rename"

\* the policy an archive's collision was resolved with
Effective(e) == IF e.prompted THEN Base(e.choice) ELSE e.before

\* <dest>_<n>
Sibling(dest, n) == dest \o <<"_">> \o Decimal(n)

\* the record e shows dest resolved as policy p prescribes (or the resolver
\* raising before it returned)
FollowsPolicy(e, p) ==
    \/ e.outcome = "raised"
    \/ p = "skip" /\ e.resolved = NONE /\ e.outcome \in {"pending", "skipped"}
    \/ p = "overwrite" /\ e.resolved = e.dest
    \/ p = "rename" /\ \E n \in 1..(Len(log) + 2) : e.resolved = Sibling(e.dest, n)

ExtractorFailures == {"ReadError", "ValueError", "OSError"}

\* the extractor was invoked for the archive of record e
Invoked(e) == e.outcome \in {"extracted", "ReadError", "ValueError", "OSError", "RuntimeError"}

\* the archive of record e was handled to the end of its loop iteration
Handled(e) == e.outcome \in {"skipped", "dry-run", "extracted"} \cup ExtractorFailures

InRun == pc \in {"loop", "resolved"} \/ (pc \in {"returned", "crashed"} /\ archives # <<>>)

----------------------------------------------------------------------------
(* C1 *)

C1_Escalated(i) == log[i].prompted /\ log[i].choice \in {"skip-all", "overwrite-all", "rename-all"}

C1_State ==
    \A i \in 1..Len(log) :
        C1_Escalated(i) =>
            /\ log[i].before = "ask"
            /\ log[i].after = Base(log[i].choice)
            /\ FollowsPolicy(log[i], Base(log[i].choice))
            /\ pc \in {"loop", "resolved"} => on_existing = Base(log[i].choice)
            /\ \A j \in (i + 1)..Len(log) :
                  /\ ~log[j].prompted
                  /\ log[j].before = Base(log[i].choice)
                  /\ log[j].existed => FollowsPolicy(log[j], Base(log[i].choice))

C1_Step ==
    \A k \in 1..Len(log) :
        /\ k <= Len(log')
        /\ log'[k].resolved = log[k].resolved
        /\ log'[k].choice = log[k].choice
        /\ log[k].outcome # "pending" => log'[k] = log[k]

\* C1: under 'ask', once a prompt is answered skip-all, overwrite-all or
\* rename-all at some archive, the current policy is the base policy from then
\* on, that archive and every later one whose destination exists are resolved
\* with it, no later archive is prompted for, and the records of the archives
\* resolved earlier never change.
C1_EscalationSticks == []C1_State /\ [][C1_Step]_vars

\* skip-all was answered at one archive and a later archive, whose
\* destination existed, has been skipped without a prompt
C1_Witness ==
    \E i \in 1..Len(log), j \in 1..Len(log) :
        /\ i < j
        /\ C1_Escalated(i) /\ log[i].choice = "skip-all"
        /\ log[j].existed /\ ~log[j].prompted /\ log[j].outcome = "skipped"

----------------------------------------------------------------------------
(* C2 *)

C2_FailureStep ==
    (/\ pc = "resolved"
     /\ Len(log') = Len(log)
     /\ Last(log).outcome = "pending"
     /\ Last(log').outcome \in ExtractorFailures)
    => /\ failed' = failed + 1
       /\ extracted' = extracted
       /\ skipped' = skipped
       /\ idx' = idx + 1
       /\ archives' = archives
       /\ pc' = "loop"

C2_State ==
    /\ (pc = "crashed" /\ log # <<>>) => Last(log).outcome \notin ExtractorFailures
    /\ (pc = "returned" /\ archives # <<>>) =>
          /\ Len(log) = Len(archives)
          /\ \A i \in 1..Len(log) :
                /\ log[i].archive = i
                /\ log[i].dest = archive_stem(PathName(archives[i]))
                /\ Handled(log[i])

\* C2: outside a dry run, when unpack_archive raises ReadError, ValueError or
\* OSError, 'failed' grows by one, 'extracted' and 'skipped' keep their value
\* and the loop goes on with the next archive; such a failure never ends the
\* run, and when the RunResult is returned every archive of the list has been
\* handled, in order.
C2_ExtractorFailureIsCounted == []C2_State /\ [][C2_FailureStep]_vars

\* three archives, the first one failed to extract, the two after it were
\* extracted: RunResult(2, 0, 1) and exit status 1
C2_Witness ==
    /\ pc = "returned"
    /\ Len(archives) = 3
    /\ log[1].outcome \in ExtractorFailures
    /\ extracted = 2 /\ skipped = 0 /\ failed = 1
    /\ status = <<1>>

----------------------------------------------------------------------------
(* C3 *)

\* C3: a filesystem error raised while an archive's destination is prepared
\* ends the handling of that archive only: extract_archives is not ended by it.
C3_PreparationErrorIsPerArchive ==
    \A i \in 1..Len(log) : log[i].outcome = "raised" => pc # "crashed"

----------------------------------------------------------------------------
(* C4 *)

\* C4: in a dry run the extractor is invoked for no archive and writes nothing,
\* 'failed' stays 0, and 'extracted' counts exactly the archives handled whose
\* destination was not resolved to None.
C4_DryRunNeverExtracts ==
    plan.dry_run =>
        /\ failed = 0
        /\ \A i \in 1..Len(log) : ~Invoked(log[i])
        /\ \A d \in DOMAIN fs : \A c \in fs[d].contents : c.src = 0
        /\ extracted = Cardinality({i \in 1..Len(log) :
                                       Handled(log[i]) /\ log[i].resolved # NONE})
        /\ pc = "returned" => status # <<1>>

\* a dry run over three archives returned with two counted as extracted and
\* one skipped
C4_Witness ==
    /\ plan.dry_run
    /\ pc = "returned"
    /\ extracted = 2 /\ skipped = 1

----------------------------------------------------------------------------
(* C5 *)

C5_Step ==
    (/\ pc = "loop" /\ pc' = "resolved"
     /\ Last(log').existed
     /\ Effective(Last(log')) = "rename")
    => LET d == Last(log').dest
       IN \E n \in 1..(Cardinality(DOMAIN fs) + 1) :
             /\ resolved_dest' = Sibling(d, n)
             /\ ~Exists(fs, Sibling(d, n))
             /\ \A k \in 1..(n - 1) : Exists(fs, Sibling(d, k))
             /\ DOMAIN fs' = DOMAIN fs \cup {Sibling(d, n)}
             /\ fs'[Sibling(d, n)] = [kind |-> "dir", contents |-> {}]
             /\ \A x \in DOMAIN fs : fs'[x] = fs[x]

\* C5: resolving an existing destination D with 'rename' returns D_N for the
\* smallest N >= 1 such that D_N did not exist, makes that folder (empty), and
\* leaves D, every D_k with k < N and every other folder as they were.
C5_RenameTakesFirstFreeSibling == [][C5_Step]_vars

\* "a" and "a_1" existed and an archive with the stem "a" was given "a_2"
C5_Witness ==
    /\ pc = "resolved"
    /\ log # <<>>
    /\ Last(log).dest = <<"a">>
    /\ Effective(Last(log)) = "rename"
    /\ Exists(env.tree, <<"a">>) /\ Exists(env.tree, <<"a", "_", "1">>)
    /\ resolved_dest = <<"a", "_", "2">>

----------------------------------------------------------------------------
(* C6 *)

\* C6: when an existing destination folder has been resolved with 'overwrite',
\* the folder returned is that same folder, it exists and it is empty in the
\* state in which the extractor is about to be invoked for the archive.
C6_OverwriteLeavesEmptyFolder ==
    (/\ pc = "resolved"
     /\ log # <<>>
     /\ Last(log).existed
     /\ Effective(Last(log)) = "overwrite")
    => /\ resolved_dest = Last(log).dest
       /\ Exists(fs, resolved_dest)
       /\ fs[resolved_dest] = [kind |-> "dir", contents |-> {}]

\* the first archive's destination "a" held a file and a subtree before the
\* run, was resolved with 'overwrite' and is now empty
C6_Witness ==
    /\ pc = "resolved"
    /\ idx = 1
    /\ Last(log).dest = <<"a">>
    /\ Exists(env.tree, <<"a">>)
    /\ Cardinality(env.tree[<<"a">>].contents) = 2
    /\ Effective(Last(log)) = "overwrite"
    /\ resolved_dest = <<"a">>
    /\ fs[<<"a">>].contents = {}

----------------------------------------------------------------------------
(* C7 *)

C7_Once(i) == log[i].prompted /\ log[i].choice \in {"skip", "overwrite", "rename"}

\* C7: under 'ask', a prompt answered skip, overwrite or rename resolves the
\* current archive with that action and leaves the policy 'ask', so that the
\* next archive whose destination exists is prompted for again; an archive
\* whose destination does not exist is not prompted for and leaves the policy
\* as it was.
C7_SingleChoiceKeepsAsking ==
    \A i \in 1..Len(log) :
        /\ C7_Once(i) =>
              /\ log[i].before = "ask" /\ log[i].after = "ask"
              /\ FollowsPolicy(log[i], log[i].choice)
              /\ \A j \in (i + 1)..Len(log) :
                    (log[j].existed /\ \A k \in (i + 1)..(j - 1) : ~log[k].existed)
                        => log[j].prompted
        /\ log[i].prompted => log[i].existed /\ log[i].before = "ask"
        /\ ~log[i].existed =>
              /\ ~log[i].prompted
              /\ log[i].after = log[i].before
              /\ log[i].outcome # "raised" => log[i].resolved = log[i].dest

\* a prompt was answered "overwrite", the next archive's destination did not
\* exist and was not prompted for, and the one after it was prompted for again
C7_Witness ==
    /\ Len(log) = 3
    /\ C7_Once(1) /\ log[1].choice = "overwrite"
    /\ ~log[2].existed /\ ~log[2].prompted
    /\ log[3].existed /\ log[3].prompted

----------------------------------------------------------------------------
(* C8 *)

\* C8: main returns 2 exactly when the input directory does not exist, and
\* then nothing was created, changed or extracted; it returns 0 when no
\* archive is found; after a batch it returns 1 if failed > 0 and 0 otherwise.
C8_ExitStatus ==
    /\ ~env.input_exists =>
          /\ pc \in {"main", "returned", "cancelled"}
          /\ ~made_output /\ fs = env.tree /\ log = <<>>
    /\ pc = "returned" =>
          /\ status \in {<<0>>, <<1>>, <<2>>}
          /\ status = <<2>> <=> ~env.input_exists
          /\ (env.input_exists /\ archives = <<>>) =>
                status = <<0>> /\ ~made_output /\ fs = env.tree
          /\ archives # <<>> =>
                /\ status = <<1>> <=> failed > 0
                /\ status = <<0>> <=> failed = 0
    /\ pc # "returned" => status = <<>>

\* a batch in which one archive was skipped and none failed returned 0
C8_Witness ==
    /\ pc = "returned"
    /\ skipped = 1 /\ failed = 0 /\ extracted = 1
    /\ status = <<0>>

----------------------------------------------------------------------------
(* C9 *)

C9_Sum == extracted + skipped + failed

C9_State ==
    /\ InRun => C9_Sum = idx - 1
    /\ InRun => C9_Sum = Cardinality({i \in 1..Len(log) : Handled(log[i])})
    /\ (pc = "returned" /\ archives # <<>>) => C9_Sum = Len(archives)

C9_Step ==
    /\ extracted' >= extracted /\ skipped' >= skipped /\ failed' >= failed
    /\ (pc = "resolved" /\ idx' # idx) =>
          /\ idx' = idx + 1
          /\ \/ extracted' = extracted + 1 /\ skipped' = skipped /\ failed' = failed
             \/ extracted' = extracted /\ skipped' = skipped + 1 /\ failed' = failed
             \/ extracted' = extracted /\ skipped' = skipped /\ failed' = failed + 1
    /\ (pc # "resolved" \/ idx' = idx) =>
          extracted' = extracted /\ skipped' = skipped /\ failed' = failed

\* C9: after every loop iteration extracted + skipped + failed is the number
\* of archives handled so far, an iteration adds one to exactly one counter, no
\* counter ever decreases, and the counters of the returned RunResult sum to
\* the length of the archive list.
C9_CounterConservation == []C9_State /\ [][C9_Step]_vars

\* a run of three archives returned with one extracted, one skipped and one
\* failed
C9_Witness ==
    /\ pc = "returned"
    /\ extracted = 1 /\ skipped = 1 /\ failed = 1

----------------------------------------------------------------------------
(* C10 *)

\* C10: any two archives of a run that are not skipped are given different
\* destination folders, and what an archive extracted stays in its folder.
C10_DistinctDestinations ==
    /\ \A i \in 1..Len(log), j \in 1..Len(log) :
          (i < j /\ log[i].resolved # NONE /\ log[j].resolved # NONE)
              => log[i].resolved # log[j].resolved
    /\ \A i \in 1..Len(log) :
          log[i].outcome = "extracted" =>
              /\ Exists(fs, log[i].resolved)
              /\ Output(i) \in fs[log[i].resolved].contents

====
